---- MODULE Spec2Model ----
(***************************************************************************)
(* Asynchronous job lifecycle of the essay generator: the start handlers   *)
(* create job records in the 'essay-jobs' blob store, the background       *)
(* workers load a job, call the generation provider and overwrite the      *)
(* record with a terminal one.  Beside it: the synchronous generator with   *)
(* its 'essay-results' store, and the grade boundary calculations.         *)
(***************************************************************************)
EXTENDS Integers, Sequences, FiniteSets, TLC

\* ---------------------------------------------------------------- bounds
MaxJobs == 1
MaxWorkers == 2

\* results kept by the synchronous generator
MaxResults == 3

\* lines of a grade boundaries text, and the marks written in them
MaxLines == 3
MaxMark == 2
\* totalMarks handed to interpolateGrade
MaxTotal == 4

\* scaleBoundaries: the marks of a table, and the two maxima
MaxScaleMark == 11
MaxOriginal == 22
MaxTarget == 15

\* tokens of a response text handed to extractJavaScript
MaxText == 5
\* blocks of a response's content list, and the tokens of a block's text
MaxBlocks == 2
MaxBlockText == 3
\* tokens of a generated config and of the caller's source material
MaxConfig == 2
MaxSource == 3

\* ------------------------------------------------------------ job ids
\* Ids handed out by the start handlers ('job_' + Date.now() + '_' + random).
JobIds == 1..MaxJobs
\* An id no start handler ever produced (a bad id in a worker trigger).
Ghost == 0
Keys == {Ghost} \cup JobIds
Workers == 1..MaxWorkers

\* ------------------------------------------------------ request bodies
Absent == "absent"

Obj(e, s, x) == [kind |-> "object", examBoard |-> e, subject |-> s, extra |-> x]

\* event.body that JSON.parse rejects
Garbage == [kind |-> "garbage", examBoard |-> Absent, subject |-> Absent, extra |-> Absent]
\* event.body "null": JSON.parse succeeds and yields null
NullBody == [kind |-> "null", examBoard |-> Absent, subject |-> Absent, extra |-> Absent]
\* a field of a record that was never written (job.input of a terminal record)
Undefined == [kind |-> "undefined", examBoard |-> Absent, subject |-> Absent, extra |-> Absent]

Partial == Obj("AQA", Absent, Absent)
Full == Obj("AQA", "English", Absent)
FullExtra == Obj("AQA", "English", "x")

Bodies == {Garbage, NullBody, Partial, Full, FullExtra}
\* The requests sent to a start handler: a POST with each body, and a GET.
Requests == {[method |-> "POST", body |-> b] : b \in Bodies}
            \cup {[method |-> "GET", body |-> Full]}
StartKinds == {"essay", "search", "grade"}
WorkerKinds == {"essay", "search", "grade"}

\* ------------------------------------------------------------- records
NoRecord == [status |-> "absent", input |-> Undefined, config |-> Absent,
             result |-> Absent, error |-> Absent, ts |-> FALSE]

\* { status: 'processing', input: ..., timestamp: Date.now() }
ProcessingRecord(input) == [status |-> "processing", input |-> input, config |-> Absent,
                            result |-> Absent, error |-> Absent, ts |-> TRUE]

\* { status: 'error', error: ... }
ErrorRecord(err) == [status |-> "error", input |-> Undefined, config |-> Absent,
                     result |-> Absent, error |-> err, ts |-> FALSE]

\* { status: 'completed', config: config, timestamp: Date.now() }
CompletedConfig(cfg) == [status |-> "completed", input |-> Undefined, config |-> cfg,
                         result |-> Absent, error |-> Absent, ts |-> TRUE]

\* { status: 'completed', result: result, timestamp: Date.now() }
CompletedResult(res) == [status |-> "completed", input |-> Undefined, config |-> Absent,
                         result |-> res, error |-> Absent, ts |-> TRUE]

CredentialMsg == "ANTHROPIC_API_KEY not configured"
ProviderResponse == "provider response"
ExceptionMsg == "error.message"

Terminal(r) == r.status \in {"completed", "error"}

\* ------------------------------------------------------------ responses
\* The response of the step just taken; background workers answer no client.
\* `body` is the JSON document a poll answers with, `trigger` the outcome of
\* the worker trigger the request fired ("none": no trigger was fired).
NoResp == [op |-> "none", code |-> 0, jobId |-> Ghost, status |-> Absent,
           body |-> NoRecord, trigger |-> "none"]

\* { statusCode, body: JSON.stringify({ jobId, status }) } or an error body
StartResp(code, id, st) == [op |-> "start", code |-> code, jobId |-> id, status |-> st,
                            body |-> NoRecord, trigger |-> "none"]

\* { error: '...' }: the body of a 400, 405 or 500 answer
ErrorBody(msg) == [NoRecord EXCEPT !.error = msg]

NotFoundBody == ErrorBody("Job not found")

\* { status: 'processing' }: what a poll answers when it finds no record
StillProcessing == [NoRecord EXCEPT !.status = "processing"]

\* { statusCode, body: JSON.stringify(...) } of the poll handler for ?jobId=id
PollResp(code, id, body) == [op |-> "poll", code |-> code, jobId |-> id,
                             status |-> body.status, body |-> body, trigger |-> "none"]

\* --------------------------------------------------------------- state
VARIABLES store, nextId, wk, resp, apiKey, results, reply, calc

vars == <<store, nextId, wk, resp, apiKey, results, reply, calc>>

\* An invocation: where it stands (pc), which worker runs (kind, "any" as
\* long as the three workers execute the same statements), the jobId of its
\* trigger (jid), the branch it took last (path) and the record of the
\* store.setJSON it is awaiting (pending).
IdleWorker == [pc |-> "idle", kind |-> "any", jid |-> Ghost,
               pending |-> NoRecord, path |-> "none"]

\* The handler returned.  What is left of the invocation is its last log
\* line: 'Job not found', 'Result saved successfully' (or nothing after an
\* error record was saved), 'Failed to save error state', or only 'Error:'
\* when the trigger body gave no job id.
Returned(me, pc, out) == [IdleWorker EXCEPT !.pc = pc, !.jid = me.jid, !.path = out]

\* ------------------------------------------------- synchronous generator
\* Ids of the results the synchronous generator saves in 'essay-results'.
ResultIds == 1..MaxResults

\* A JSON document of the synchronous generator or of its poll handler.
NoDoc == [status |-> Absent, completed |-> Absent, config |-> Absent, jobId |-> Ghost,
          timestamp |-> FALSE, error |-> Absent, details |-> Absent, stack |-> Absent]

\* { completed: true, config, jobId, timestamp: Date.now() }
SyncResult(id) == [NoDoc EXCEPT !.completed = "true", !.config = "config",
                                !.jobId = id, !.timestamp = TRUE]

\* { completed: false }: what the results poll answers when it finds nothing
NotCompleted == [NoDoc EXCEPT !.completed = "false"]

\* No request was answered yet.
NoReply == [op |-> "none", code |-> 0, jobId |-> Ghost, body |-> NoDoc]

\* The 'essay-results' store: whether NETLIFY_SITE_ID and
\* NETLIFY_BLOBS_TOKEN are set (the store can be opened), and its records.
NoResults(cfg) == [configured |-> cfg, recs |-> [i \in ResultIds |-> NoDoc]]

\* --------------------------------------------------- grade calculations
\* No function was called yet.
NoCalc == [fn |-> "none"]

Init ==
    /\ store = [k \in Keys |-> NoRecord]
    /\ nextId = 1
    /\ wk = [w \in Workers |-> IdleWorker]
    /\ resp = NoResp
    /\ results = NoResults(TRUE)
    /\ reply = NoReply
    /\ calc = NoCalc
    \* process.env.ANTHROPIC_API_KEY of the deployment: configured or not
    /\ apiKey \in BOOLEAN

\* ---------------------------------------------------------- store reads
\* store.get(id, { type: 'json' }) on a store opened with getStore(name):
\* the read resolves with the record, or with null when there is none.  The
\* store is opened without `consistency: 'strong'`, so a read may be served by
\* a replica the record has not reached yet (seen = FALSE) and resolve with
\* null although the record was written.
StoreGet(id, seen) == IF seen THEN store[id] ELSE NoRecord

\* ------------------------------------------------------- start handlers
\* JavaScript falsiness of a destructured body field: undefined or ''.
Falsy(v) == v \in {Absent, ""}

\* Status code answered by a start handler.  The essay start handler parses
\* the body and stores it as it is; the search and grade-boundary start
\* handlers destructure the body and require examBoard and subject.
StartCode(k, m, b, writeOk) ==
    IF m # "POST" THEN 405
    ELSE IF b.kind = "garbage" THEN 500
    ELSE IF k # "essay" /\ b.kind = "null" THEN 500
    ELSE IF k # "essay" /\ (Falsy(b.examBoard) \/ Falsy(b.subject)) THEN 400
    ELSE IF ~writeOk THEN 500
    ELSE 202

StartInputDropsSubject(k, b) ==
    IF k = "essay" THEN b ELSE Obj(b.examBoard, Absent, Absent)

\* The input field of the record a start handler stores: the whole body for
\* the essay start, the named fields only for the two search starts.
StartInput(k, b) ==
    IF k = "essay" THEN b ELSE Obj(b.examBoard, b.subject, Absent)

StartWritesBeforeValidating(k, m, b, writeOk) ==
    LET code == StartCode(k, m, b, writeOk)
        wrote == m = "POST" /\ b.kind = "object" /\ writeOk IN
    /\ wrote => nextId <= MaxJobs
    /\ IF wrote
       THEN /\ store' = [store EXCEPT ![nextId] = ProcessingRecord(StartInput(k, b))]
            /\ nextId' = nextId + 1
       ELSE UNCHANGED <<store, nextId>>
    /\ resp' = IF code = 202 THEN StartResp(202, nextId, "processing")
                             ELSE StartResp(code, Ghost, Absent)
    /\ UNCHANGED <<wk, apiKey, results, reply, calc>>

\* Outcomes of the request that triggers the worker: it succeeds, it is
\* rejected, or it is still pending when the handler returns.
TriggerOutcomes == {"ok", "fail", "never"}

\* Only the essay start handler fires the trigger.
Fired(k) == IF k = "essay" THEN TriggerOutcomes ELSE {"none"}

TriggerAwaited(code, trig) == IF trig = "fail" THEN 500 ELSE code

\* fetch(...).catch(() => {}): the request is not awaited and its rejection
\* is swallowed, the handler goes on to its return statement.
Triggered(code, trig) == code

\* The answer of a start handler that stored its record and (essay) fired
\* the trigger with outcome trig.
StartAnswer(code, id, trig) ==
    IF code = 202
    THEN [StartResp(202, id, "processing") EXCEPT !.trigger = trig]
    ELSE [StartResp(code, Ghost, Absent) EXCEPT !.trigger = trig]

Start(k, m, b, writeOk) ==
    LET code == StartCode(k, m, b, writeOk) IN
    /\ code = 202 => nextId <= MaxJobs
    /\ IF code = 202
       THEN /\ store' = [store EXCEPT ![nextId] = ProcessingRecord(StartInput(k, b))]
            /\ nextId' = nextId + 1
            /\ \E trig \in Fired(k) :
                   resp' = StartAnswer(Triggered(202, trig), nextId, trig)
       ELSE /\ UNCHANGED <<store, nextId>>
            /\ resp' = StartResp(code, Ghost, Absent)
    /\ UNCHANGED <<wk, apiKey, results, reply, calc>>

\* --------------------------------------------------------- poll handler
\* event.queryStringParameters?.jobId is undefined or ''.
MissingJobId == -2
\* The jobId of a poll: none, an id no start produced, or any job id.
PollIds == {MissingJobId} \cup Keys
PollMethods == {"GET", "POST"}

PollCodeSwallowsReadFailure(m, q, readOk) ==
    IF m # "GET" THEN 405
    ELSE IF q = MissingJobId THEN 400
    ELSE 200

\* Status code answered by the poll handler (check-job).
PollCode(m, q, readOk) ==
    IF m # "GET" THEN 405
    ELSE IF q = MissingJobId THEN 400
    ELSE IF ~readOk THEN 500
    ELSE 200

PollError(code) ==
    IF code = 405 THEN "Method not allowed"
    ELSE IF code = 400 THEN "Missing jobId"
    ELSE ExceptionMsg

PollBodyDropsResult(result) ==
    IF result = NoRecord THEN StillProcessing
    ELSE [result EXCEPT !.result = Absent, !.config = Absent]

\* if (!result) answer { status: 'processing' }, else JSON.stringify(result).
PollBody(result) == IF result = NoRecord THEN StillProcessing ELSE result

PollWritesBack(m, q, readOk, seen) ==
    LET code == PollCode(m, q, readOk)
        id == IF q = MissingJobId THEN Ghost ELSE q IN
    /\ resp' = IF code = 200
               THEN PollResp(200, id, PollBody(StoreGet(q, seen)))
               ELSE PollResp(code, id, ErrorBody(PollError(code)))
    /\ store' = IF code = 200 THEN [store EXCEPT ![q] = PollBody(StoreGet(q, seen))]
                              ELSE store
    /\ UNCHANGED <<nextId, wk, apiKey, results, reply, calc>>

\* exports.handler of check-job: method check, jobId check, store.get, answer.
Poll(m, q, readOk, seen) ==
    LET code == PollCode(m, q, readOk)
        id == IF q = MissingJobId THEN Ghost ELSE q IN
    /\ resp' = IF code = 200
               THEN PollResp(200, id, PollBody(StoreGet(q, seen)))
               ELSE PollResp(code, id, ErrorBody(PollError(code)))
    /\ UNCHANGED <<store, nextId, wk, apiKey, results, reply, calc>>

\* ------------------------------------------------------------- workers
\* Bodies of a worker trigger: unparsable / without jobId, or {jobId}.
Malformed == -1
Triggers == {Malformed, Ghost} \cup {j \in JobIds : j < nextId}

\* Outcomes of the HTTPS request to the generation provider.
ProviderOutcomes == {"ok", "ok_notext", "http_error", "unparsable", "transport", "hang"}

\* MaxWorkers invocations in all, overlapping or one after the other; the
\* slots are taken in order.
NextSlot(w) == wk[w].pc = "idle" /\ \A v \in Workers : v < w => wk[v].pc # "idle"

\* exports.handler up to the first await: JSON.parse(event.body), getStore,
\* store.get issued.  A body that does not parse throws before `store` is
\* assigned, so the catch block writes nothing.
Invoke(w, t) ==
    /\ NextSlot(w)
    /\ t \in Triggers
    /\ IF t = Malformed
       THEN wk' = [wk EXCEPT ![w] = Returned(IdleWorker, "done", "malformed")]
       ELSE wk' = [wk EXCEPT ![w] = [IdleWorker EXCEPT !.pc = "loading", !.jid = t]]
    /\ resp' = NoResp
    /\ UNCHANGED <<store, nextId, apiKey, results, reply, calc>>

\* `job.input` is dereferenced right after the load: body.subject in the essay
\* worker, a destructuring in the search workers.  Both throw a TypeError on
\* null and on undefined.
InputThrows(input) == input.kind \in {"null", "undefined"}

LoadStepNoGuard(me, job, readOk, key) ==
    IF ~readOk \/ InputThrows(job.input)
    THEN [me EXCEPT !.pc = "failing", !.path = "baddata",
                    !.pending = ErrorRecord(ExceptionMsg)]
    ELSE IF ~key
    THEN [me EXCEPT !.pc = "writing", !.path = "nocred",
                    !.pending = ErrorRecord(CredentialMsg)]
    ELSE [me EXCEPT !.pc = "requesting", !.path = "requested"]

\* The statements from `const job = await store.get(...)` to the next await:
\* a rejected read throws into the catch block, a missing record returns,
\* job.input is dereferenced, a missing credential is recorded, otherwise the
\* request to the provider is issued.
LoadStep(me, job, readOk, key) ==
    IF ~readOk
    THEN [me EXCEPT !.pc = "failing", !.path = "readfail",
                    !.pending = ErrorRecord(ExceptionMsg)]
    ELSE IF job = NoRecord
    THEN Returned(me, "done", "notfound")
    ELSE IF InputThrows(job.input)
    THEN [me EXCEPT !.pc = "failing", !.path = "baddata",
                    !.pending = ErrorRecord(ExceptionMsg)]
    ELSE IF ~key
    THEN [me EXCEPT !.pc = "writing", !.path = "nocred",
                    !.pending = ErrorRecord(CredentialMsg)]
    ELSE [me EXCEPT !.pc = "requesting", !.path = "requested"]

\* store.get resolved (or rejected) and the synchronous code after it ran up
\* to the next await.
Load(w, readOk, seen) ==
    LET me == wk[w] IN
    /\ me.pc = "loading"
    /\ wk' = [wk EXCEPT ![w] = LoadStep(me, StoreGet(me.jid, seen), readOk, apiKey)]
    /\ resp' = NoResp
    /\ UNCHANGED <<store, nextId, apiKey, results, reply, calc>>

\* The generation client (makeRequest, searchWithClaude, searchGradeBoundaries):
\* the promise it returns rejects on a transport failure (req.on('error',
\* reject)) and resolves otherwise, with a value that has an `error` field
\* when the HTTP status is not 200 or the response body is not JSON.
MakeRequest(k, o) ==
    IF o = "transport" THEN [rejects |-> TRUE, error |-> FALSE]
    ELSE IF o \in {"http_error", "unparsable"} THEN [rejects |-> FALSE, error |-> TRUE]
    ELSE [rejects |-> FALSE, error |-> FALSE]

ContinuationCompletesOnError(k, o) ==
    LET r == MakeRequest(k, o) IN
    IF r.rejects THEN [throws |-> TRUE, rec |-> ErrorRecord(ExceptionMsg)]
    ELSE IF k = "essay"
    THEN IF o = "ok_notext" THEN [throws |-> TRUE, rec |-> ErrorRecord(ExceptionMsg)]
         ELSE [throws |-> FALSE, rec |-> CompletedConfig("config")]
    ELSE IF r.error THEN [throws |-> FALSE, rec |-> CompletedResult("error result")]
         ELSE IF o = "ok_notext" THEN [throws |-> FALSE, rec |-> CompletedResult("raw response")]
         ELSE [throws |-> FALSE, rec |-> CompletedResult("structured")]

\* What the worker does with the provider's answer: the record it is about to
\* write, or "throw" when the continuation throws (rejected request promise,
\* claudeData.content[0].text of a response without a leading text block).
Continuation(k, o) ==
    LET r == MakeRequest(k, o) IN
    IF r.rejects THEN [throws |-> TRUE, rec |-> ErrorRecord(ExceptionMsg)]
    ELSE IF k = "essay"
    THEN IF r.error THEN [throws |-> FALSE, rec |-> ErrorRecord(ProviderResponse)]
         ELSE IF o = "ok_notext" THEN [throws |-> TRUE, rec |-> ErrorRecord(ExceptionMsg)]
         ELSE [throws |-> FALSE, rec |-> CompletedConfig("config")]
    ELSE IF r.error THEN [throws |-> FALSE, rec |-> CompletedResult("error result")]
         ELSE IF o = "ok_notext" THEN [throws |-> FALSE, rec |-> CompletedResult("raw response")]
         ELSE [throws |-> FALSE, rec |-> CompletedResult("structured")]

\* The provider answered (or the request failed, or never answers).  From
\* here on the essay worker (makeRequest, extractJavaScript) and the search
\* workers (searchWithClaude, searchGradeBoundaries) differ.
Respond(w, k, o) ==
    LET me == wk[w]
        c == Continuation(k, o) IN
    /\ me.pc = "requesting"
    /\ wk' = [wk EXCEPT ![w] =
         IF o = "hang"
         THEN [me EXCEPT !.pc = "hung", !.kind = k, !.path = o]
         ELSE [me EXCEPT !.pc = IF c.throws THEN "failing" ELSE "writing",
                         !.kind = k, !.path = o, !.pending = c.rec]]
    /\ resp' = NoResp
    /\ UNCHANGED <<store, nextId, apiKey, results, reply, calc>>

SetJSONDropped(s, id, rec) == s

\* store.setJSON(jobId, record) replaces the whole record under jobId.
SetJSON(s, id, rec) == [s EXCEPT ![id] = rec]

WriteUnderOtherId(w, writeOk) ==
    LET me == wk[w] IN
    /\ me.pc = "writing"
    /\ IF writeOk
       THEN /\ store' = SetJSON(store, CHOOSE j \in Keys : j # me.jid, me.pending)
            /\ wk' = [wk EXCEPT ![w] = Returned(me, "done", "saved")]
       ELSE /\ store' = store
            /\ wk' = [wk EXCEPT ![w] = [me EXCEPT !.pc = "failing", !.path = "writefail",
                                                   !.pending = ErrorRecord(ExceptionMsg)]]
    /\ resp' = NoResp
    /\ UNCHANGED <<nextId, apiKey, results, reply, calc>>

\* The write inside the try block: credential error, provider error or result.
\* A rejected write throws into the catch block.
Write(w, writeOk) ==
    LET me == wk[w] IN
    /\ me.pc = "writing"
    /\ IF writeOk
       THEN /\ store' = SetJSON(store, me.jid, me.pending)
            /\ wk' = [wk EXCEPT ![w] = Returned(me, "done", "saved")]
       ELSE /\ store' = store
            /\ wk' = [wk EXCEPT ![w] = [me EXCEPT !.pc = "failing", !.path = "writefail",
                                                   !.pending = ErrorRecord(ExceptionMsg)]]
    /\ resp' = NoResp
    /\ UNCHANGED <<nextId, apiKey, results, reply, calc>>

SecondaryFailurePropagates == "raised"

\* How the catch block ends when its own write is rejected: the inner
\* try/catch logs the failure and the handler returns.
SecondaryFailure == "done"

\* The write of the catch block: { status: 'error', error: error.message }.
Fail(w, writeOk) ==
    LET me == wk[w] IN
    /\ me.pc = "failing"
    /\ IF writeOk
       THEN /\ store' = SetJSON(store, me.jid, me.pending)
            /\ wk' = [wk EXCEPT ![w] = Returned(me, "done", "saved")]
       ELSE /\ store' = store
            /\ wk' = [wk EXCEPT ![w] = Returned(me, SecondaryFailure, "unsaved")]
    /\ resp' = NoResp
    /\ UNCHANGED <<nextId, apiKey, results, reply, calc>>

\* ------------------------------------------------------- specification
Next ==
    \/ \E k \in StartKinds, r \in Requests, ok \in BOOLEAN : Start(k, r.method, r.body, ok)
    \/ \E m \in PollMethods, q \in PollIds, ok \in BOOLEAN, seen \in BOOLEAN : Poll(m, q, ok, seen)
    \/ \E w \in Workers, t \in Triggers : Invoke(w, t)
    \/ \E w \in Workers, ok \in BOOLEAN, seen \in BOOLEAN : Load(w, ok, seen)
    \/ \E w \in Workers, k \in WorkerKinds, o \in ProviderOutcomes : Respond(w, k, o)
    \/ \E w \in Workers, ok \in BOOLEAN : Write(w, ok)
    \/ \E w \in Workers, ok \in BOOLEAN : Fail(w, ok)

Spec == Init /\ [][Next]_vars

\* The same system while the provider answers every request, the store
\* accepts every write, every worker read is served the latest record and
\* no client polls.  The runtime resumes a handler once the promise it
\* awaits has settled, hence weak fairness of each step of an invocation.
NextReliable ==
    \/ \E k \in StartKinds, r \in Requests : Start(k, r.method, r.body, TRUE)
    \/ \E w \in Workers, t \in Triggers : Invoke(w, t)
    \/ \E w \in Workers, ok \in BOOLEAN : Load(w, ok, TRUE)
    \/ \E w \in Workers, k \in WorkerKinds, o \in ProviderOutcomes \ {"hang"} : Respond(w, k, o)
    \/ \E w \in Workers : Write(w, TRUE)
    \/ \E w \in Workers : Fail(w, TRUE)

Progress(w) ==
    \/ \E ok \in BOOLEAN : Load(w, ok, TRUE)
    \/ \E k \in WorkerKinds, o \in ProviderOutcomes \ {"hang"} : Respond(w, k, o)
    \/ Write(w, TRUE)
    \/ Fail(w, TRUE)

FairSpec == Init /\ [][NextReliable]_vars /\ \A w \in Workers : WF_vars(Progress(w))

TypeOK ==
    /\ nextId \in 1..(MaxJobs + 1)
    /\ \A k \in Keys : store[k].status \in {"absent", "processing", "completed", "error"}
    /\ \A w \in Workers : wk[w].pc \in {"idle", "loading", "requesting", "writing",
                                        "failing", "hung", "done", "raised"}

\* ---------------------------------------------------------------------
\* The synchronous generator and the poll handler of its results
\* ---------------------------------------------------------------------
jobVars == <<store, nextId, wk, resp, apiKey>>

\* { statusCode, body } of the synchronous generator
GenerateReply(code, id, body) == [op |-> "generate", code |-> code, jobId |-> id, body |-> body]

\* { statusCode, body } of the results poll handler for ?jobId=id
ResultsReply(code, id, body) == [op |-> "poll", code |-> code, jobId |-> id, body |-> body]

\* The job id of a call: an id under which nothing is saved yet.
FreshResult == CHOOSE i \in ResultIds :
                  /\ results.recs[i] = NoDoc
                  /\ \A j \in ResultIds : j < i => results.recs[j] # NoDoc

\* What the synchronous generator answers: method check, JSON.parse and
\* body.subject, credential check, makeRequest, extractJavaScript.  The
\* catch block answers the message and the stack of the exception.
GenerateAnswer(m, b, key, o, id) ==
    IF m # "POST"
    THEN GenerateReply(405, Ghost, [NoDoc EXCEPT !.error = "Method not allowed"])
    ELSE IF b.kind \in {"garbage", "null"}
    THEN GenerateReply(500, Ghost, [NoDoc EXCEPT !.error = ExceptionMsg, !.stack = "error.stack"])
    ELSE IF ~key
    THEN GenerateReply(500, Ghost, [NoDoc EXCEPT !.error = CredentialMsg])
    ELSE IF MakeRequest("essay", o).rejects \/ o = "ok_notext"
    THEN GenerateReply(500, Ghost, [NoDoc EXCEPT !.error = ExceptionMsg, !.stack = "error.stack"])
    ELSE IF MakeRequest("essay", o).error
    THEN GenerateReply(500, Ghost, [NoDoc EXCEPT !.error = "Claude API error",
                                                 !.details = ProviderResponse])
    ELSE GenerateReply(200, id, SyncResult(id))

\* exports.handler of the synchronous generator.  The result is saved when
\* the store could be opened (openOk) and accepts the write; a failure of
\* either is logged and the result answered all the same.
Generate(m, b, o, openOk, writeOk) ==
    LET ans == GenerateAnswer(m, b, apiKey, o, FreshResult) IN
    /\ \E i \in ResultIds : results.recs[i] = NoDoc
    /\ reply' = ans
    /\ results' = IF ans.code = 200 /\ results.configured /\ openOk /\ writeOk
                  THEN [results EXCEPT !.recs[FreshResult] = ans.body]
                  ELSE results
    /\ UNCHANGED <<jobVars, calc>>

\* store.get(jobId) on 'essay-results', opened like 'essay-jobs' without
\* strong consistency.
ResultsGet(q, seen) == IF seen /\ q \in ResultIds THEN results.recs[q] ELSE NoDoc

\* JSON.stringify(result || { completed: false })
ResultsBody(result) == IF result = NoDoc THEN NotCompleted ELSE result

\* exports.handler of the results poll: method check, jobId check,
\* getStore and store.get inside the try block, answer.
PollResults(m, q, readOk, seen) ==
    LET code == PollCode(m, q, readOk)
        id == IF q = MissingJobId THEN Ghost ELSE q IN
    /\ reply' = IF code = 200
                THEN ResultsReply(200, id, ResultsBody(ResultsGet(q, seen)))
                ELSE ResultsReply(code, id, [NoDoc EXCEPT !.error = PollError(code)])
    /\ UNCHANGED <<jobVars, results, calc>>

SyncInit ==
    /\ store = [k \in Keys |-> NoRecord]
    /\ nextId = 1
    /\ wk = [w \in Workers |-> IdleWorker]
    /\ resp = NoResp
    /\ apiKey \in BOOLEAN
    /\ results \in {NoResults(cfg) : cfg \in BOOLEAN}
    /\ reply = NoReply
    /\ calc = NoCalc

SyncNext ==
    \/ \E r \in Requests, o \in ProviderOutcomes \ {"hang"}, openOk \in BOOLEAN, writeOk \in BOOLEAN :
          Generate(r.method, r.body, o, openOk, writeOk)
    \/ \E m \in PollMethods, q \in {MissingJobId, Ghost} \cup ResultIds,
          readOk \in BOOLEAN, seen \in BOOLEAN : PollResults(m, q, readOk, seen)

\* The synchronous generator and its poll handler on their own.
SyncSpec == SyncInit /\ [][SyncNext]_vars

\* C21: every 200 answer of a poll handler carries a status that is one of
\* processing, completed, error, for a stored record and for no record.
C21_PollStatusIsLifecycleStatus ==
    reply.op = "poll" /\ reply.code = 200 =>
        reply.body.status \in {"processing", "completed", "error"}

\* C22: no answer to a client and no stored record carries the stack trace
\* of an exception: of the exception only its message is given, as `error`.
C22_NoStackExposed ==
    /\ reply.body.stack = Absent
    /\ \A i \in ResultIds : results.recs[i].stack = Absent

\* ---------------------------------------------------------------------
\* Grade boundary calculations (processGradeBoundaries, interpolateGrade)
\* ---------------------------------------------------------------------
\* The third capture group of the line pattern did not take part.
NoMax == -1

\* Grade tokens written in the lines, [A-Z\d*+]+ under the i flag, and
\* those of them made of digits only.
NumericTokens == {"1", "3", "4", "03", "6", "9"}
GradeTokens == {"1", "3", "4", "03", "a"}

\* A line of the text after split('\n') and trim(): empty, without a match
\* of the pattern, or with the groups the pattern captured.
BlankLine == [kind |-> "blank", grade |-> Absent, min |-> 0, max |-> NoMax]
JunkLine == [kind |-> "junk", grade |-> Absent, min |-> 0, max |-> NoMax]
RowLine(g, lo, hi) == [kind |-> "row", grade |-> g, min |-> lo, max |-> hi]

Lines == {BlankLine, JunkLine}
         \cup {RowLine(g, lo, hi) : g \in GradeTokens, lo \in 0..MaxMark, hi \in {NoMax, MaxMark}}

\* boundariesText: undefined or null (absent), or a string (its lines).
NoText == [kind |-> "absent", lines |-> <<>>]
TextOf(ls) == [kind |-> "text", lines |-> ls]

\* 'Grade 9: 36-40', 'Grade 6: 24-28', 'Grade 4: 16-20'
ExampleText == TextOf(<<RowLine("9", 36, 40), RowLine("6", 24, 28), RowLine("4", 16, 20)>>)
ExampleTotal == 40

\* match[1].toUpperCase()
ToUpperCase(t) == IF t = "a" THEN "A" ELSE t

\* /^\d+$/.test(b.grade)
IsDigits(t) == t \in NumericTokens

\* parseInt(b.grade) of an all-digit token: the number whose decimal
\* writing the token is, leading zeros aside.
ParseInt(t) == IF t = "03" THEN 3 ELSE CHOOSE n \in 0..10 : ToString(n) = t

\* { grade, minMark, maxMark } pushed for a matching line
ParseLine(l) == [grade |-> ToUpperCase(l.grade), minMark |-> l.min,
                 maxMark |-> IF l.max = NoMax THEN l.min ELSE l.max]

\* The loop over the non-empty lines: the rows of the matching ones, in order.
RECURSIVE ParseLines(_)
ParseLines(ls) ==
    IF ls = <<>> THEN <<>>
    ELSE IF Head(ls).kind = "row" THEN <<ParseLine(Head(ls))>> \o ParseLines(Tail(ls))
    ELSE ParseLines(Tail(ls))

\* !boundariesText || !boundariesText.trim()
BlankText(text) == text.kind = "absent" \/ \A i \in 1..Len(text.lines) : text.lines[i].kind = "blank"

\* The row goes behind the rows that do not come after it in the order
\* (b.minMark - a.minMark <= 0): Array.prototype.sort is stable.
InsertRow(r, s) ==
    LET p == Cardinality({i \in 1..Len(s) : s[i].minMark >= r.minMark}) IN
    SubSeq(s, 1, p) \o <<r>> \o SubSeq(s, p + 1, Len(s))

SortByMinMarkSkipped(rows) == rows

\* boundaries.sort((a, b) => b.minMark - a.minMark)
RECURSIVE SortByMinMark(_)
SortByMinMark(rows) ==
    IF rows = <<>> THEN <<>>
    ELSE InsertRow(rows[Len(rows)], SortByMinMark(SubSeq(rows, 1, Len(rows) - 1)))

\* boundaries.every(b => /^\d+$/.test(b.grade))
isNumeric(rows) == \A i \in 1..Len(rows) : IsDigits(rows[i].grade)

numericBoundariesNoMax(rows) ==
    [i \in 1..Len(rows) |-> [grade |-> rows[i].grade, gradeNum |-> ParseInt(rows[i].grade),
                             minMark |-> rows[i].minMark, maxMark |-> rows[i].minMark]]

\* boundaries.map(b => ({ ...b, gradeNum: parseInt(b.grade) }))
numericBoundaries(rows) ==
    [i \in 1..Len(rows) |-> [grade |-> rows[i].grade, gradeNum |-> ParseInt(rows[i].grade),
                             minMark |-> rows[i].minMark, maxMark |-> rows[i].maxMark]]

\* new Map(numericBoundaries.map(b => [b.gradeNum, b])): of two rows with
\* the same key the later one stays.
knownGrades(nb) ==
    [g \in {nb[i].gradeNum : i \in 1..Len(nb)} |->
        nb[CHOOSE i \in 1..Len(nb) :
              /\ nb[i].gradeNum = g
              /\ \A j \in 1..Len(nb) : nb[j].gradeNum = g => j <= i]]

\* Math.max(...) and Math.min(...) of a non-empty set of numbers
MaxOf(S) == CHOOSE x \in S : \A y \in S : y <= x
MinOf(S) == CHOOSE x \in S : \A y \in S : x <= y

\* Math.round of the fraction n / d, d > 0: the nearest integer, a half
\* goes up.  (The quotients and products interpolateGrade forms from marks
\* and grade numbers of this size are rounded the same way in double
\* precision.)
RoundDiv(n, d) == (2 * n + d) \div (2 * d)

\* gradeAbove or gradeBelow is still null
NoGrade == -1

\* No row: interpolateGrade returned null
NoRow == [grade |-> Absent, gradeNum |-> NoGrade, minMark |-> 0, maxMark |-> 0]

\* Array.from(knownGrades.keys()).sort((a, b) => b - a)
RECURSIVE KeysDescending(_)
KeysDescending(S) ==
    IF S = {} THEN <<>> ELSE <<MaxOf(S)>> \o KeysDescending(S \ {MaxOf(S)})

\* for (const g of knownGradeNums): the nearest known grades around grade
RECURSIVE Neighbours(_, _, _, _)
Neighbours(keys, grade, above, below) ==
    IF keys = <<>> THEN [above |-> above, below |-> below]
    ELSE LET g == Head(keys) IN
         Neighbours(Tail(keys), grade,
                    IF g > grade /\ (above = NoGrade \/ g < above) THEN g ELSE above,
                    IF g < grade /\ (below = NoGrade \/ g > below) THEN g ELSE below)

interpolateBetweenTruncates(grade, gradeAbove, gradeBelow, known) ==
    LET upperBound == known[gradeAbove]
        lowerBound == known[gradeBelow]
        gradeDiff == gradeAbove - gradeBelow
        markDiff == upperBound.minMark - lowerBound.minMark
        minMark == (upperBound.minMark * gradeDiff - (gradeAbove - grade) * markDiff)
                       \div gradeDiff
        maxMark == ((minMark - 1) * gradeDiff + markDiff) \div gradeDiff IN
    [grade |-> ToString(grade), gradeNum |-> grade, minMark |-> minMark, maxMark |-> maxMark]

\* Both neighbours are known: linear interpolation.
\*   markPerGrade = markDiff / gradeDiff
\*   minMark = Math.round(upperBound.minMark - (gradeAbove - grade) * markPerGrade)
\*   maxMark = Math.round(minMark + markPerGrade - 1)
interpolateBetween(grade, gradeAbove, gradeBelow, known) ==
    LET upperBound == known[gradeAbove]
        lowerBound == known[gradeBelow]
        gradeDiff == gradeAbove - gradeBelow
        markDiff == upperBound.minMark - lowerBound.minMark
        minMark == RoundDiv(upperBound.minMark * gradeDiff - (gradeAbove - grade) * markDiff,
                            gradeDiff)
        maxMark == RoundDiv((minMark - 1) * gradeDiff + markDiff, gradeDiff) IN
    [grade |-> ToString(grade), gradeNum |-> grade, minMark |-> minMark, maxMark |-> maxMark]

\* Only a grade above is known: extrapolation below the lowest known grade.
extrapolateBelow(grade, gradeAbove, known) ==
    LET upperBound == known[gradeAbove]
        avgMarkPerGrade == upperBound.minMark \div gradeAbove
        down == upperBound.minMark - (gradeAbove - grade) * avgMarkPerGrade
        minMark == IF down < 0 THEN 0 ELSE down
        maxMark == upperBound.minMark - 1 IN
    [grade |-> ToString(grade), gradeNum |-> grade, minMark |-> minMark, maxMark |-> maxMark]

\* Only a grade below is known: extrapolation above the highest known grade.
extrapolateAbove(grade, gradeBelow, known, totalMarks) ==
    LET lowerBound == known[gradeBelow]
        avgMarkPerGrade == (totalMarks - lowerBound.minMark) \div (10 - gradeBelow)
        minMark == lowerBound.maxMark + 1 + (grade - gradeBelow - 1) * avgMarkPerGrade
        up == minMark + avgMarkPerGrade - 1
        maxMark == IF up > totalMarks THEN totalMarks ELSE up IN
    [grade |-> ToString(grade), gradeNum |-> grade, minMark |-> minMark, maxMark |-> maxMark]

interpolateGrade(grade, known, totalMarks) ==
    LET near == Neighbours(KeysDescending(DOMAIN known), grade, NoGrade, NoGrade) IN
    IF near.above # NoGrade /\ near.below # NoGrade
    THEN interpolateBetween(grade, near.above, near.below, known)
    ELSE IF near.above # NoGrade THEN extrapolateBelow(grade, near.above, known)
    ELSE IF near.below # NoGrade THEN extrapolateAbove(grade, near.below, known, totalMarks)
    ELSE NoRow

RECURSIVE allGradesKnownOnly(_, _, _, _)
allGradesKnownOnly(grade, minGrade, known, totalMarks) ==
    IF grade < minGrade THEN <<>>
    ELSE (IF grade \in DOMAIN known THEN <<known[grade]>> ELSE <<>>)
            \o allGradesKnownOnly(grade - 1, minGrade, known, totalMarks)

\* for (let grade = maxGrade; grade >= minGrade; grade--): the known row,
\* or the interpolated one unless it is null.
RECURSIVE allGrades(_, _, _, _)
allGrades(grade, minGrade, known, totalMarks) ==
    IF grade < minGrade THEN <<>>
    ELSE LET row == IF grade \in DOMAIN known THEN known[grade]
                    ELSE interpolateGrade(grade, known, totalMarks) IN
         (IF row = NoRow THEN <<>> ELSE <<row>>)
            \o allGrades(grade - 1, minGrade, known, totalMarks)

\* `Grade ${g.grade}: ${g.minMark}-${g.maxMark} marks`: what a line of the
\* returned text tells.
FormatRow(g) == [grade |-> g.grade, minMark |-> g.minMark, maxMark |-> g.maxMark]

\* What processGradeBoundaries returns: null, the text it was given, or the
\* lines of a table.
NullOut == [kind |-> "null", lines |-> <<>>, rows |-> <<>>]
RawOut(text) == [kind |-> "raw", lines |-> text.lines, rows |-> <<>>]
TableOut(rows) == [kind |-> "table", lines |-> <<>>,
                   rows |-> [i \in 1..Len(rows) |-> FormatRow(rows[i])]]

processGradeBoundaries(boundariesText, totalMarks) ==
    LET boundaries == SortByMinMark(ParseLines(boundariesText.lines))
        nb == numericBoundaries(boundaries)
        known == knownGrades(nb)
        maxGrade == MaxOf(DOMAIN known)
        minGrade == MinOf(DOMAIN known) IN
    IF BlankText(boundariesText) THEN NullOut
    ELSE IF ParseLines(boundariesText.lines) = <<>> THEN RawOut(boundariesText)
    ELSE IF isNumeric(boundaries)
    THEN TableOut(allGrades(maxGrade, minGrade, known, totalMarks))
    ELSE TableOut(boundaries)

\* buildMessages: the prompt gets a GRADE BOUNDARIES section when what
\* processGradeBoundaries returned is truthy.
BoundariesSection(processed) ==
    ~(processed.kind = "null" \/ (processed.kind = "raw" /\ processed.lines = <<>>))

\* ------------------------------------------------ calls of the functions
ProcessCall(text, total) == [fn |-> "processGradeBoundaries", done |-> FALSE,
                             text |-> text, totalMarks |-> total]
InterpolateCall(grade, known, total) == [fn |-> "interpolateGrade", done |-> FALSE,
                                         grade |-> grade, known |-> known, totalMarks |-> total]

\* The maps interpolateGrade is called with: rows under the number of their
\* grade token, as knownGrades builds them; and the grades asked for.
KnownRows == {[grade |-> t, gradeNum |-> ParseInt(t), minMark |-> lo, maxMark |-> hi] :
                 t \in GradeTokens \cap NumericTokens, lo \in 0..MaxMark,
                 hi \in 0..MaxMark}
ExampleMap == knownGrades(numericBoundaries(SortByMinMark(ParseLines(ExampleText.lines))))
AskedGrades(known) == (0..10) \ DOMAIN known
Totals == (0..MaxTotal) \cup {ExampleTotal}

CalcInputs ==
    \/ calc = ProcessCall(NoText, MaxTotal)
    \/ calc = ProcessCall(ExampleText, ExampleTotal)
    \* 'Grade 3: 3', 'Grade 1: 0': one and a half marks per grade
    \/ calc = ProcessCall(TextOf(<<RowLine("3", 3, NoMax), RowLine("1", 0, NoMax)>>), MaxTotal)
    \/ \E n \in 0..MaxLines : \E ls \in [1..n -> Lines] :
          calc = ProcessCall(TextOf(ls), MaxTotal)
    \/ \E D \in SUBSET {r.gradeNum : r \in KnownRows} : \E known \in [D -> KnownRows] :
          /\ D # {}
          /\ \A g \in D : known[g].gradeNum = g
          /\ \E g \in AskedGrades(known), tm \in Totals :
                calc = InterpolateCall(g, known, tm)
    \/ \E g \in AskedGrades(ExampleMap) : calc = InterpolateCall(g, ExampleMap, ExampleTotal)

CalcInit ==
    /\ store = [k \in Keys |-> NoRecord]
    /\ nextId = 1
    /\ wk = [w \in Workers |-> IdleWorker]
    /\ resp = NoResp
    /\ apiKey = TRUE
    /\ results = NoResults(TRUE)
    /\ reply = NoReply
    /\ CalcInputs

\* buildMessages calls processGradeBoundaries(gradeBoundaries, totalMarks).
Process ==
    /\ calc.fn = "processGradeBoundaries" /\ ~calc.done
    /\ calc' = [fn |-> calc.fn, done |-> TRUE, text |-> calc.text, totalMarks |-> calc.totalMarks,
                out |-> processGradeBoundaries(calc.text, calc.totalMarks)]
    /\ UNCHANGED <<jobVars, results, reply>>

\* A call of interpolateGrade(grade, knownGrades, totalMarks).
Interpolate ==
    /\ calc.fn = "interpolateGrade" /\ ~calc.done
    /\ calc' = [fn |-> calc.fn, done |-> TRUE, grade |-> calc.grade, known |-> calc.known,
                totalMarks |-> calc.totalMarks,
                out |-> interpolateGrade(calc.grade, calc.known, calc.totalMarks)]
    /\ UNCHANGED <<jobVars, results, reply>>

CalcNext == Process \/ Interpolate

\* The grade boundary functions applied to their inputs.
CalcSpec == CalcInit /\ [][CalcNext]_vars

\* ---------------------------------------------------------------------
\* Scaling of a boundary table (scaleBoundaries of the grade worker)
\* ---------------------------------------------------------------------
\* The numbers of the program are IEEE 754 doubles.  A positive double is
\* written top.l1 l2 l3 l4 * 2^exp: an integer part `top` and a fraction of
\* 52 bits in four limbs of LimbBits bits, most significant first.  A
\* normalised double has top = 1.
LimbBits == 13
RECURSIVE Pow2(_)
Pow2(k) == IF k = 0 THEN 1 ELSE 2 * Pow2(k - 1)
Limb == Pow2(LimbBits)

\* The number of bits of a positive integer.
RECURSIVE BitLength(_)
BitLength(n) == IF n = 0 THEN 0 ELSE 1 + BitLength(n \div 2)

\* One more unit in the last place, the carry going up through the limbs.
AddUlp(x, unit) ==
    LET s4 == x.l4 + unit
        s3 == x.l3 + s4 \div Limb
        s2 == x.l2 + s3 \div Limb
        s1 == x.l1 + s2 \div Limb IN
    [top |-> x.top + s1 \div Limb, l1 |-> s1 % Limb, l2 |-> s2 % Limb,
     l3 |-> s3 % Limb, l4 |-> s4 % Limb, exp |-> x.exp]

\* The exponent of the quotient t / o: 2^p <= t / o < 2^(p + 1).
RECURSIVE QuotientExp(_, _)
QuotientExp(t, o) ==
    IF t < o THEN QuotientExp(2 * t, o) - 1
    ELSE IF t >= 2 * o THEN QuotientExp(t, 2 * o) + 1
    ELSE 0

\* targetMax / originalMax for positive integers: the quotient rounded to 53
\* significant bits, to nearest, ties to the even significand.
FloatDiv(t, o) ==
    LET p == QuotientExp(t, o)
        n == IF p < 0 THEN t * Pow2(-p) ELSE t
        d == IF p > 0 THEN o * Pow2(p) ELSE o
        r0 == n - d
        q1 == (r0 * Limb) \div d
        r1 == (r0 * Limb) % d
        q2 == (r1 * Limb) \div d
        r2 == (r1 * Limb) % d
        q3 == (r2 * Limb) \div d
        r3 == (r2 * Limb) % d
        q4 == (r3 * Limb) \div d
        r4 == (r3 * Limb) % d
        cut == [top |-> 1, l1 |-> q1, l2 |-> q2, l3 |-> q3, l4 |-> q4, exp |-> p]
        up == 2 * r4 > d \/ (2 * r4 = d /\ q4 % 2 = 1)
        sum == IF up THEN AddUlp(cut, 1) ELSE cut IN
    IF sum.top = 2 THEN [sum EXCEPT !.top = 1, !.exp = p + 1] ELSE sum

\* b.minMarks * scale for a positive integer a: the exact product, rounded to
\* 53 significant bits (ties to even).  The result keeps the exponent of the
\* scale; its integer part `top` has as many bits as the product gained.
FloatMul(a, x) ==
    LET m4 == x.l4 * a
        m3 == x.l3 * a + m4 \div Limb
        m2 == x.l2 * a + m3 \div Limb
        m1 == x.l1 * a + m2 \div Limb
        exact == [top |-> x.top * a + m1 \div Limb, l1 |-> m1 % Limb, l2 |-> m2 % Limb,
                  l3 |-> m3 % Limb, l4 |-> m4 % Limb, exp |-> x.exp]
        s == BitLength(exact.top) - 1
        low == exact.l4 % Pow2(s)
        keptOdd == IF s < LimbBits THEN (exact.l4 \div Pow2(s)) % 2 = 1
                   ELSE exact.l3 % 2 = 1
        half == Pow2(s) \div 2
        up == s > 0 /\ (low > half \/ (low = half /\ keptOdd))
        cut == [exact EXCEPT !.l4 = exact.l4 - low] IN
    IF up THEN AddUlp(cut, Pow2(s)) ELSE cut

\* Math.round of a positive double: the integer part, and one more when the
\* first bit of the fraction is set.
MathRound(x) ==
    IF x.exp >= 0
    THEN x.top * Pow2(x.exp) + x.l1 \div Pow2(LimbBits - x.exp)
            + ((x.l1 \div Pow2(LimbBits - 1 - x.exp)) % 2)
    ELSE x.top \div Pow2(-x.exp) + ((x.top \div Pow2(-x.exp - 1)) % 2)

\* Math.round(marks * scale) with scale = targetMax / originalMax
ScaledMark(marks, originalMax, targetMax) ==
    IF marks = 0 \/ targetMax = 0 THEN 0
    ELSE MathRound(FloatMul(marks, FloatDiv(targetMax, originalMax)))

\* A number that is null or undefined: maxMarks of a row, maxMark of the
\* search result.
NoMarks == -1

\* A row of searchResult.boundaries: { grade, minMarks, maxMarks }, maxMarks
\* possibly null.
TableRows(g, maxMarks) ==
    {[grade |-> g, minMarks |-> a, maxMarks |-> x] : a \in 0..MaxScaleMark, x \in maxMarks}

\* The tables scaled: of one row, and of two rows with different grades.
Tables == {<<r>> : r \in TableRows("9", {NoMarks, MaxScaleMark}) \cup TableRows("A", {NoMarks, MaxScaleMark})}
          \cup {<<r1, r2>> : r1 \in TableRows("9", {MaxScaleMark}), r2 \in TableRows("A", {NoMarks})}

scaleRowFromMaxMarks(b, originalMax, targetMax) ==
    [grade |-> b.grade,
     minMarks |-> IF b.maxMarks \in {NoMarks, 0} THEN 0
                  ELSE ScaledMark(b.maxMarks, originalMax, targetMax),
     maxMarks |-> IF b.maxMarks \in {NoMarks, 0} THEN NoMarks
                  ELSE ScaledMark(b.maxMarks, originalMax, targetMax),
     originalMin |-> b.minMarks,
     originalMax |-> b.maxMarks]

\* b => ({ grade, minMarks: Math.round(b.minMarks * scale),
\*         maxMarks: b.maxMarks ? Math.round(b.maxMarks * scale) : null,
\*         originalMin: b.minMarks, originalMax: b.maxMarks })
scaleRow(b, originalMax, targetMax) ==
    [grade |-> b.grade,
     minMarks |-> ScaledMark(b.minMarks, originalMax, targetMax),
     maxMarks |-> IF b.maxMarks \in {NoMarks, 0} THEN NoMarks
                  ELSE ScaledMark(b.maxMarks, originalMax, targetMax),
     originalMin |-> b.minMarks,
     originalMax |-> b.maxMarks]

scaleBoundaries(boundaries, originalMax, targetMax) ==
    IF originalMax = NoMarks \/ originalMax = 0 THEN boundaries
    ELSE [i \in 1..Len(boundaries) |-> scaleRow(boundaries[i], originalMax, targetMax)]

ScaleCall(boundaries, originalMax, targetMax) ==
    [fn |-> "scaleBoundaries", done |-> FALSE, boundaries |-> boundaries,
     originalMax |-> originalMax, targetMax |-> targetMax]

\* The grade worker scales when searchResult.boundaries is not empty and
\* totalMarks is truthy; searchResult.maxMark is what the search told.
ScaleInit ==
    /\ store = [k \in Keys |-> NoRecord]
    /\ nextId = 1
    /\ wk = [w \in Workers |-> IdleWorker]
    /\ resp = NoResp
    /\ apiKey = TRUE
    /\ results = NoResults(TRUE)
    /\ reply = NoReply
    /\ \E b \in Tables, o \in {NoMarks} \cup (0..MaxOriginal), t \in 1..MaxTarget :
          calc = ScaleCall(b, o, t)

\* scaleBoundaries(searchResult.boundaries, searchResult.maxMark, totalMarks)
Scale ==
    /\ calc.fn = "scaleBoundaries" /\ ~calc.done
    /\ calc' = [fn |-> calc.fn, done |-> TRUE, boundaries |-> calc.boundaries,
                originalMax |-> calc.originalMax, targetMax |-> calc.targetMax,
                out |-> scaleBoundaries(calc.boundaries, calc.originalMax, calc.targetMax)]
    /\ UNCHANGED <<jobVars, results, reply>>

ScaleNext == Scale

\* scaleBoundaries applied to its inputs.
ScaleSpec == ScaleInit /\ [][ScaleNext]_vars

\* ---------------------------------------------------------------------
\* Properties of the grade boundary calculations
\* ---------------------------------------------------------------------
\* processGradeBoundaries returned for a text.
Processed == calc.fn = "processGradeBoundaries" /\ calc.done

\* The rows the text supplies, and the numbers of their grades.
Supplied == ParseLines(calc.text.lines)
NumericInput == Processed /\ Supplied # <<>>
                /\ \A i \in 1..Len(Supplied) : Supplied[i].grade \in NumericTokens
SuppliedGrades == {ParseInt(Supplied[i].grade) : i \in 1..Len(Supplied)}

\* C23: of a text whose parsed grade tokens are all numeric the output
\* lists the grades from the largest supplied one down to the smallest,
\* each integer grade between them once, whatever the order and the
\* repetitions of the input.
C23_GradesDescendGapFree ==
    NumericInput =>
        LET hi == MaxOf(SuppliedGrades)
            lo == MinOf(SuppliedGrades)
            rows == calc.out.rows IN
        /\ calc.out.kind = "table"
        /\ Len(rows) = hi - lo + 1
        /\ \A i \in 1..Len(rows) : ParseInt(rows[i].grade) = hi + 1 - i

\* Grade 3 is given twice, after grade 1, and grade 2 is filled in.
C23_Witness ==
    /\ NumericInput
    /\ [i \in 1..Len(Supplied) |-> Supplied[i].grade] = <<"1", "3", "03">>
    /\ Len(calc.out.rows) = 3
    /\ calc.out.rows[2].grade = "2"

\* C24: when of any two supplied rows the one with the higher grade has the
\* greater minMark, the table of processGradeBoundaries descends strictly by
\* minMark from row to row, the interpolated rows included.
C24_TableDescendsByMinMark ==
    (/\ NumericInput
     /\ \A i, j \in 1..Len(Supplied) :
           ParseInt(Supplied[i].grade) > ParseInt(Supplied[j].grade)
               => Supplied[i].minMark > Supplied[j].minMark)
    => \A i \in 1..(Len(calc.out.rows) - 1) :
           calc.out.rows[i].minMark > calc.out.rows[i + 1].minMark

\* interpolateGrade returned for a grade and a map of known grades.
Interpolated == calc.fn = "interpolateGrade" /\ calc.done
KnownAbove == {k \in DOMAIN calc.known : k > calc.grade}
KnownBelow == {k \in DOMAIN calc.known : k < calc.grade}

\* C25: for a missing grade g between its nearest known grades upper and
\* lower, with m = (upper.minMark - lower.minMark) / (upperGrade - lowerGrade),
\* interpolateGrade returns minMark = round(upper.minMark - (upperGrade - g) * m)
\* and maxMark = minMark + round(m) - 1; from 9: 36-40, 6: 24-28, 4: 16-20
\* it returns 8: 32-35, 7: 28-31 and 5: 20-23.
C25_LinearInterpolation ==
    Interpolated /\ KnownAbove # {} /\ KnownBelow # {} =>
        LET upperGrade == MinOf(KnownAbove)
            lowerGrade == MaxOf(KnownBelow)
            upper == calc.known[upperGrade]
            lower == calc.known[lowerGrade]
            num == upper.minMark - lower.minMark
            den == upperGrade - lowerGrade
            g == calc.grade IN
        /\ calc.out.gradeNum = g
        /\ calc.out.minMark = RoundDiv(upper.minMark * den - (upperGrade - g) * num, den)
        /\ calc.out.maxMark = calc.out.minMark + RoundDiv(num, den) - 1
        /\ calc.known = ExampleMap =>
              <<g, calc.out.minMark, calc.out.maxMark>>
                  \in {<<8, 32, 35>>, <<7, 28, 31>>, <<5, 20, 23>>}

\* Grade 7 of the example: the second grade below 9, between 9 and 6.
C25_Witness ==
    /\ Interpolated
    /\ calc.known = ExampleMap
    /\ calc.grade = 7
    /\ calc.out.minMark = 28 /\ calc.out.maxMark = 31

\* What the lines of the text give for grade g: token, minMark and maxMark
\* (a line with one mark gives it as both).
Given(g) ==
    {[grade |-> l.grade, minMark |-> l.min, maxMark |-> IF l.max = NoMax THEN l.min ELSE l.max] :
        l \in {calc.text.lines[i] : i \in {n \in 1..Len(calc.text.lines) :
                  /\ calc.text.lines[n].kind = "row"
                  /\ ParseInt(calc.text.lines[n].grade) = g}}}

\* C26: every grade a numeric input supplies has one row in the output, with
\* the minMark and maxMark the input gives for it (of several lines for one
\* grade one is kept); the other rows are those of grades not supplied.
C26_SuppliedGradesKept ==
    NumericInput =>
        LET rows == calc.out.rows IN
        \A g \in SuppliedGrades :
            \E i \in 1..Len(rows) :
                /\ rows[i] \in Given(g)
                /\ \A j \in 1..Len(rows) : ParseInt(rows[j].grade) = g => j = i

\* Grades 4 and 1 supplied, grade 1 with a range; 3 and 2 are added.
C26_Witness ==
    /\ NumericInput
    /\ Supplied = <<[grade |-> "4", minMark |-> 2, maxMark |-> 2],
                    [grade |-> "1", minMark |-> 0, maxMark |-> 2]>>
    /\ Len(calc.out.rows) = 4
    /\ calc.out.rows[4] = [grade |-> "1", minMark |-> 0, maxMark |-> 2]

\* C27: when a parsed grade token is not made of digits only, the output
\* is the parsed rows in descending order of minMark: no row is added, none
\* is lost and no value is changed.
C27_LetterGradesOnlySorted ==
    Processed /\ Supplied # <<>> /\ ~NumericInput =>
        LET rows == calc.out.rows
            count(r, seq) == Cardinality({i \in 1..Len(seq) : seq[i] = r}) IN
        /\ calc.out.kind = "table"
        /\ Len(rows) = Len(Supplied)
        /\ \A i \in 1..Len(Supplied) : count(Supplied[i], rows) = count(Supplied[i], Supplied)
        /\ \A i \in 1..(Len(rows) - 1) : rows[i].minMark >= rows[i + 1].minMark

\* A letter grade after two numeric ones, the lowest marks first; grade 2
\* is not filled in.
C27_Witness ==
    /\ Processed
    /\ Supplied = <<[grade |-> "1", minMark |-> 0, maxMark |-> 0],
                    [grade |-> "3", minMark |-> 1, maxMark |-> 2],
                    [grade |-> "A", minMark |-> 2, maxMark |-> 2]>>
    /\ calc.out.rows = <<Supplied[3], Supplied[2], Supplied[1]>>

\* C28: when no boundary is parsed from the input (no text, a blank text, or
\* a text of which no line matches the pattern), processGradeBoundaries
\* returns null or the empty text and the prompt gets no boundaries section.
C28_NothingParsedGivesNothing ==
    Processed /\ Supplied = <<>> =>
        /\ calc.out.kind = "null" \/ (calc.out.kind = "raw" /\ calc.out.lines = <<>>)
        /\ ~BoundariesSection(calc.out)

\* scaleBoundaries returned.
Scaled == calc.fn = "scaleBoundaries" /\ calc.done

\* C29: scaleBoundaries returns, for each row of the input in its order,
\* minMarks = round(row.minMarks * targetMax / originalMax) with the grade
\* of the row and its minMarks and maxMarks as originalMin and originalMax;
\* with originalMax zero or absent it returns the input table as it is.
C29_ScaledMinIsRoundedQuotient ==
    Scaled =>
        IF calc.originalMax \in {NoMarks, 0}
        THEN calc.out = calc.boundaries
        ELSE /\ Len(calc.out) = Len(calc.boundaries)
             /\ \A i \in 1..Len(calc.boundaries) :
                   LET row == calc.boundaries[i] IN
                   /\ calc.out[i].grade = row.grade
                   /\ calc.out[i].originalMin = row.minMarks
                   /\ calc.out[i].originalMax = row.maxMarks
                   /\ calc.out[i].minMarks
                         = RoundDiv(row.minMarks * calc.targetMax, calc.originalMax)

\* C30: scaling a table from a maximum M > 0 to the same M gives every row
\* the minMarks it had.
C30_IdentityScaleKeepsMinMarks ==
    Scaled /\ calc.originalMax > 0 /\ calc.originalMax = calc.targetMax =>
        /\ Len(calc.out) = Len(calc.boundaries)
        /\ \A i \in 1..Len(calc.boundaries) :
              calc.out[i].minMarks = calc.boundaries[i].minMarks

\* Two rows scaled from 15 to 15, the first with a maxMarks above its
\* minMarks.
C30_Witness ==
    /\ Scaled
    /\ calc.originalMax = MaxTarget /\ calc.targetMax = MaxTarget
    /\ Len(calc.boundaries) = 2
    /\ calc.boundaries[1].minMarks = 7 /\ calc.boundaries[2].minMarks = 3
    /\ calc.out[1].minMarks = 7 /\ calc.out[2].minMarks = 3

\* ---------------------------------------------------------------------
\* Properties of the job lifecycle
\* ---------------------------------------------------------------------

\* The step is one in which the store accepts a write of worker w.
Writes(w) == Write(w, TRUE) \/ Fail(w, TRUE)

\* The step is one in which the invocation w returns (or raises).
Returns(w) == wk[w].pc \in {"loading", "writing", "failing"} /\ wk'[w].pc \in {"done", "raised"}

HasRequired(b) == b.kind = "object" /\ ~Falsy(b.examBoard) /\ ~Falsy(b.subject)

\* C1: a record whose status is completed or error never changes status
\* again, whatever start, worker and second worker invocations follow.
C1_StatusNeverChangesAgain ==
    [][\A j \in Keys : Terminal(store[j]) => store'[j].status = store[j].status]_vars

\* C2: at most one terminal write reaches the store for a job id: no write of
\* a worker is accepted for a record that already is completed or error.
C2_SingleTerminalWrite ==
    [][\A w \in Workers : Writes(w) => ~Terminal(store[wk[w].jid])]_vars

\* C3 as stated: an invocation that loaded its job id ends without raising
\* and leaves the job completed or error, except when no record was found.
C3_UntouchedOnlyWhenNotFound ==
    [][\A w \in Workers : Returns(w) =>
          /\ wk'[w].pc = "done"
          /\ Terminal(store'[wk[w].jid]) \/ wk'[w].path = "notfound"]_vars

\* C3 amended: every invocation ends without raising; the job is then
\* completed or error, or the store is as it was, and the latter only when
\* no record was found, the trigger body gave no job id, or the store
\* rejected the error write of the catch block.
C3_EndsWithoutRaising ==
    [][\A w \in Workers : wk[w].pc # wk'[w].pc /\ wk'[w].pc \in {"done", "raised"} =>
          /\ wk'[w].pc = "done"
          /\ \/ Terminal(store'[wk[w].jid])
             \/ /\ store' = store
                /\ \/ wk[w].pc = "idle"
                   \/ wk[w].pc = "loading" /\ wk'[w].path = "notfound"
                   \/ Fail(w, FALSE)]_vars

\* An invocation went through the catch block and saved its error record;
\* another one returned with the store rejecting the error record, its job
\* still processing.
C3_Witness ==
    \E w \in Workers, j \in Keys :
        /\ store[j].error = ExceptionMsg
        /\ wk[w].pc = "done" /\ wk[w].path = "unsaved"
        /\ wk[w].jid \in JobIds /\ store[wk[w].jid].status = "processing"

\* C4: when the provider answered with a non-success HTTP status, the write
\* of the worker leaves the record with status error and the provider's
\* response in its error field, for each of the three workers.
C4_ProviderErrorRecorded ==
    [][\A w \in Workers : wk[w].path = "http_error" /\ Write(w, TRUE) =>
          /\ store'[wk[w].jid].status = "error"
          /\ store'[wk[w].jid].error = ProviderResponse]_vars

\* C5: an invocation that finds a record for its job id while no credential
\* is configured issues no request and goes on to write the error record
\* naming the missing credential.
C5_MissingCredentialRecorded ==
    [][\A w \in Workers :
          wk[w].pc = "loading" /\ store[wk[w].jid] # NoRecord /\ ~apiKey /\ Load(w, TRUE, TRUE) =>
              /\ wk'[w].pc = "writing"
              /\ wk'[w].pending = ErrorRecord(CredentialMsg)]_vars

\* C6 as stated: no write of a worker is accepted under a job id that has no
\* record in the store.
C6_NoWriteForMissingRecord ==
    [][\A w \in Workers : Writes(w) => store[wk[w].jid] # NoRecord]_vars

\* C6 amended: an invocation whose read of the store reports that the job id
\* has no record returns at once, without raising, without a request to the
\* provider, and the whole store is as it was.
C6_NotFoundIsNoOp ==
    [][\A w \in Workers, seen \in BOOLEAN :
          wk[w].pc = "loading" /\ StoreGet(wk[w].jid, seen) = NoRecord /\ Load(w, TRUE, seen) =>
              /\ wk'[w].pc = "done"
              /\ store' = store]_vars

\* An invocation returned with 'Job not found' and its job id has no record.
C6_Witness ==
    \E w \in Workers :
        wk[w].pc = "done" /\ wk[w].path = "notfound" /\ store[wk[w].jid] = NoRecord

\* C7: an invocation that is loading a job whose record has status processing
\* leads to a record with status completed or error, while the provider
\* answers and the store accepts writes.
C7_ProcessingLeadsToTerminal ==
    \A j \in JobIds :
        (store[j].status = "processing" /\ \E w \in Workers : wk[w].pc = "loading" /\ wk[w].jid = j)
            ~> Terminal(store[j])

\* An invocation saved its record and the job it ran for is completed.
C7_Witness ==
    \E w \in Workers :
        /\ wk[w].pc = "done" /\ wk[w].path = "saved"
        /\ wk[w].jid \in JobIds /\ store[wk[w].jid].status = "completed"

\* C8: a POST start request that carries the required fields, the store
\* accepting the write, answers 202 with the job id and status processing,
\* and the store then holds under that id a processing record with the
\* submitted input.
C8_StartCreatesProcessingRecord ==
    [][\A k \in StartKinds, r \in Requests :
          /\ Start(k, r.method, r.body, TRUE)
          /\ r.method = "POST"
          /\ HasRequired(r.body)
          => /\ resp'.code = 202 /\ resp'.status = "processing"
             /\ resp'.jobId \in JobIds
             /\ store[resp'.jobId] = NoRecord
             /\ store'[resp'.jobId].status = "processing"
             /\ store'[resp'.jobId].input.kind = "object"
             /\ store'[resp'.jobId].input.examBoard = r.body.examBoard
             /\ store'[resp'.jobId].input.subject = r.body.subject
             /\ k = "essay" => store'[resp'.jobId].input = r.body]_vars

\* A start request was just answered 202 and its record is in the store.
C8_Witness ==
    /\ resp.op = "start" /\ resp.code = 202
    /\ store[resp.jobId].status = "processing"
    /\ store[resp.jobId].input = Full

\* C9: every start handler answers 400 to a POST body in which examBoard or
\* subject is absent, and creates no job.
C9_MissingFieldRejected ==
    [][\A k \in StartKinds, r \in Requests, ok \in BOOLEAN :
          /\ Start(k, r.method, r.body, ok)
          /\ r.method = "POST"
          /\ r.body.kind = "object"
          /\ ~HasRequired(r.body)
          => resp'.code = 400 /\ store' = store]_vars

\* C10: a start request that is not answered 202 leaves the store as it was,
\* and one that is answered 202 adds the record of its job id and no other.
C10_RejectedStartLeavesStore ==
    [][resp'.op = "start" =>
          IF resp'.code = 202
          THEN /\ store[resp'.jobId] = NoRecord
               /\ store'[resp'.jobId] # NoRecord
               /\ \A j \in Keys \ {resp'.jobId} : store'[j] = store[j]
          ELSE /\ resp'.code \in {400, 405, 500}
               /\ store' = store]_vars

\* A start request was just rejected while a job created earlier is stored.
C10_Witness ==
    /\ resp.op = "start" /\ resp.code \in {400, 405, 500}
    /\ \E j \in JobIds : store[j] # NoRecord

\* ---------------------------------------------------------------------
\* Properties of the poll handler
\* ---------------------------------------------------------------------

C12_PollBeforeTerminalWrite ==
    [][\A j \in JobIds, seen \in BOOLEAN :
          store[j].status = "processing" /\ resp'.op = "poll" /\ Poll("GET", j, TRUE, seen) =>
              /\ resp'.code = 200
              /\ resp'.status = "processing"
              /\ resp'.body.error = Absent
              /\ seen => resp'.body = store[j]]_vars

\* A poll for a created job was answered 200 { status: 'processing' } on a
\* read that did not reach the record yet.
C12_Witness ==
    /\ resp.op = "poll" /\ resp.code = 200 /\ resp.jobId \in JobIds
    /\ store[resp.jobId].status = "processing"
    /\ resp.body.status = "processing" /\ resp.body # store[resp.jobId]

\* C13: a non-GET poll answers 405 and a poll without jobId 400, whatever a
\* read of the store would give; a GET poll with a jobId answers 500 with an
\* error body when the read fails and 200 with the processing body when the
\* read finds no record.
C13_MissingIsNotFailure ==
    [][\A m \in PollMethods, q \in PollIds, ok \in BOOLEAN, seen \in BOOLEAN :
          resp'.op = "poll" /\ Poll(m, q, ok, seen) =>
              IF m # "GET"
              THEN resp'.code = 405 /\ resp'.body.error = "Method not allowed"
              ELSE IF q = MissingJobId
              THEN resp'.code = 400 /\ resp'.body.error = "Missing jobId"
              ELSE IF ~ok
              THEN /\ resp'.code = 500
                   /\ resp'.body.error = ExceptionMsg
                   /\ resp'.status = Absent
              ELSE StoreGet(q, seen) = NoRecord =>
                     /\ resp'.code = 200
                     /\ resp'.body = StillProcessing]_vars

\* A poll for an id that has no record was just answered 500: the read
\* failed.
C13_Witness ==
    /\ resp.op = "poll" /\ resp.code = 500
    /\ resp.body.error = ExceptionMsg
    /\ store[resp.jobId] = NoRecord

\* C14: once a poll for a job id was answered status completed or error,
\* the next poll for the same id is not answered status processing.
C14_PollNeverGoesBack ==
    [][\A j \in JobIds :
          /\ resp.op = "poll" /\ resp.jobId = j /\ resp.code = 200
          /\ resp.status \in {"completed", "error"}
          /\ resp'.op = "poll" /\ resp'.jobId = j /\ resp'.code = 200
          => resp'.status # "processing"]_vars

\* ---------------------------------------------------------------------
\* Properties of the job record
\* ---------------------------------------------------------------------

\* C15: the input of a stored record never changes: every later write to
\* the record leaves the input supplied to start in place.
C15_InputWrittenOnce ==
    [][\A j \in Keys : store[j] # NoRecord => store'[j].input = store[j].input]_vars

\* C16: every stored record has status processing, completed or error and
\* carries a timestamp.
C16_StatusAndTimestamp ==
    \A j \in Keys : store[j] # NoRecord =>
        /\ store[j].status \in {"processing", "completed", "error"}
        /\ store[j].ts

\* C18: an essay start that stored its record and fired the worker trigger
\* answers 202 with the job id whatever the outcome of the trigger, and the
\* processing record is in the store.
C18_TriggerOutcomeIgnored ==
    [][resp'.op = "start" /\ resp'.trigger \in TriggerOutcomes =>
          /\ resp'.code = 202
          /\ resp'.status = "processing"
          /\ resp'.jobId \in JobIds
          /\ store'[resp'.jobId].status = "processing"]_vars

\* A start was answered 202 although its trigger request was rejected, and
\* no worker runs for the job.
C18_Witness ==
    /\ resp.op = "start" /\ resp.trigger = "fail" /\ resp.code = 202
    /\ store[resp.jobId].status = "processing"
    /\ \A w \in Workers : wk[w].jid # resp.jobId

\* No worker invocation runs or ran for job j.
NoInvocation(j) == \A w \in Workers : wk[w].jid # j

C20_ClientNeverRejects ==
    [][\A w \in Workers, k \in WorkerKinds, o \in {"transport", "http_error", "unparsable"} :
          Respond(w, k, o) =>
              /\ ~MakeRequest(k, o).rejects
              /\ MakeRequest(k, o).error
              /\ wk'[w].pc = "writing"]_vars

\* ---------------------------------------------------------------------
\* Properties of the extrapolated and interpolated rows
\* ---------------------------------------------------------------------

RisingInput ==
    /\ NumericInput
    /\ \A i \in 1..Len(Supplied) : Supplied[i].minMark <= Supplied[i].maxMark
    /\ \A i, j \in 1..Len(Supplied) :
          ParseInt(Supplied[i].grade) > ParseInt(Supplied[j].grade)
              => Supplied[i].minMark > Supplied[j].minMark

\* C39: every row processGradeBoundaries adds by interpolation to such an
\* input is a range, minMark <= maxMark.
C39_InterpolatedRowIsRange ==
    RisingInput =>
        \A i \in 1..Len(calc.out.rows) :
            ParseInt(calc.out.rows[i].grade) \notin SuppliedGrades
                => calc.out.rows[i].minMark <= calc.out.rows[i].maxMark

\* C40: in the output for such an input the maxMark of an interpolated row is
\* less than the minMark of the row directly above it.
C40_InterpolatedRowBelowRowAbove ==
    RisingInput =>
        \A i \in 2..Len(calc.out.rows) :
            ParseInt(calc.out.rows[i].grade) \notin SuppliedGrades
                => calc.out.rows[i].maxMark < calc.out.rows[i - 1].minMark

\* ---------------------------------------------------------------------
\* Properties of a worker invocation
\* ---------------------------------------------------------------------

\* C37: an invocation has at most one write accepted by the store, under the
\* job id of its trigger; no step of a handler working on one job creates,
\* changes or removes the record of another job.
C37_WritesOnlyOwnRecordOnce ==
    [][/\ \A w \in Workers : wk'[w] # wk[w] =>
             /\ wk[w].pc \notin {"done", "raised"}
             /\ wk'[w].path = "saved" => wk'[w].pc = "done"
             /\ store' # store => wk'[w].path = "saved"
             /\ \A j \in Keys : j # wk'[w].jid => store'[j] = store[j]
       /\ wk' = wk /\ store' # store =>
             /\ resp'.op = "start" /\ store[resp'.jobId] = NoRecord
             /\ \A j \in Keys : j # resp'.jobId => store'[j] = store[j]]_vars

\* Two invocations, one for job 1 and one for an id without a job, have
\* both had their write accepted.
C37_Witness ==
    /\ wk[1].pc = "done" /\ wk[1].path = "saved"
    /\ wk[2].pc = "done" /\ wk[2].path = "saved"
    /\ wk[1].jid # wk[2].jid
    /\ store[wk[1].jid] # NoRecord /\ store[wk[2].jid] # NoRecord

\* C38: a generation request is issued only by an invocation that loaded a
\* record for its job id while a credential is configured, and the essay
\* worker writes a completed record only after its generation request
\* returned a result without an error field.
C38_StepsInOrder ==
    [][\A w \in Workers :
          /\ wk[w].pc # "requesting" /\ wk'[w].pc = "requesting" =>
                /\ wk[w].pc = "loading"
                /\ store[wk[w].jid] # NoRecord
                /\ apiKey
          /\ wk[w].kind = "essay" /\ wk'[w] # wk[w] /\ wk'[w].path = "saved"
                /\ store'[wk[w].jid].status = "completed" =>
                /\ wk[w].pc = "writing"
                /\ wk[w].path \in {"ok", "ok_notext"}]_vars

\* An essay invocation has saved a completed record with its config.
C38_Witness ==
    \E w \in Workers :
        /\ wk[w].pc = "done" /\ wk[w].path = "saved"
        /\ store[wk[w].jid].status = "completed"
        /\ store[wk[w].jid].config # Absent

\* ---------------------------------------------------------------------
\* Response texts
\* ---------------------------------------------------------------------
\* A text is a sequence of tokens.  A token is a run of characters that the
\* regular expressions of the code treat as a unit: the fence of three
\* backticks, a blank, a line break, a word, the marker a config starts
\* with, braces, the member under the marker key of a search ("questions",
\* "boundaries"), the characters escapeForTemplateLiteral and
\* String.prototype.replace treat specially, and the pieces of the two
\* placeholders of a generated config; `placeholder` is the source material
\* placeholder, sourceMaterial: `[Include the full source material text
\* here ...]`.
Tok == [fence |-> "[fence]", space |-> " ", newline |-> "\n", word |-> "x",
        marker |-> "window.ESSAY_CONFIG", open |-> "{", close |-> "}",
        key |-> "[marker key]", backslash |-> "[backslash]", backtick |-> "[backtick]",
        dollar |-> "$", ampersand |-> "&", quote |-> "'",
        sourceKey |-> "sourceMaterial:",
        hint |-> "[Include the full source material text here]",
        placeholder |-> <<"sourceMaterial:", "[backtick]",
                          "[Include the full source material text here]", "[backtick]">>,
        imagesPlaceholder |-> "sourceImages: [ // ]",
        imagesArray |-> "sourceImages: [images]"]

\* The tokens of a text handed to extractJavaScript ("json" is the language
\* tag whose first two characters are "js"), of the text of a block of the
\* provider's response, and of the caller's source material.
Alphabet ==
    [text |-> {Tok.fence, Tok.space, Tok.word, Tok.marker, Tok.close, "javascript", "js", "json"},
     block |-> {Tok.open, Tok.close, Tok.key, Tok.word},
     source |-> {Tok.backslash, Tok.backtick, Tok.dollar, Tok.open, Tok.ampersand,
                 Tok.quote, Tok.space, Tok.word}]

Texts(A, n) == UNION {[1..m -> A] : m \in 0..n}

\* String.prototype.trim: what stands between the first and the last token
\* that is not white space.
Trim(s) ==
    LET I == {i \in 1..Len(s) : s[i] \notin {Tok.space, Tok.newline}} IN
    IF I = {} THEN <<>> ELSE SubSeq(s, MinOf(I), MaxOf(I))

Positions(s, t) == {i \in 1..Len(s) : s[i] = t}

\* extractJavaScript(text).
\* match: text.match(/[fence](?:javascript|js)?\s*([\s\S]*?)[fence]/), the
\* leftmost fence that has another fence behind it opens the match and the
\* lazy group ends at the next fence; (?:javascript|js)? consumes
\* "javascript" or "js" where the text behind the fence starts with it, be
\* it a word of its own or the first characters of a longer one ("json"
\* leaves "on"), and nothing otherwise.
\* configMatch: text.match(/(window\.ESSAY_CONFIG[\s\S]*};?)/), from the
\* first marker that has a closing brace behind it to the last closing brace.
extractJavaScript(text) ==
    LET F == Positions(text, Tok.fence)
        B == Positions(text, Tok.close)
        M == {m \in Positions(text, Tok.marker) : \E b \in B : b > m}
        inner == SubSeq(text, MinOf(F) + 1, MinOf(F \ {MinOf(F)}) - 1)
        group == IF inner = <<>> THEN inner
                 ELSE IF Head(inner) \in {"javascript", "js"} THEN Tail(inner)
                 ELSE IF Head(inner) = "json" THEN <<"on">> \o Tail(inner)
                 ELSE inner IN
    IF Cardinality(F) >= 2 THEN Trim(group)
    ELSE IF M # {} THEN Trim(SubSeq(text, MinOf(M), MaxOf(B)))
    ELSE Trim(text)

\* A call of extractJavaScript(text).
Extract ==
    /\ calc.fn = "extractJavaScript" /\ ~calc.done
    /\ calc' = [fn |-> calc.fn, done |-> TRUE, text |-> calc.text,
                out |-> extractJavaScript(calc.text)]
    /\ UNCHANGED <<jobVars, results, reply>>

\* ---------------------------------------------------------------------
\* The provider's response: its content list and the search clients
\* ---------------------------------------------------------------------
\* A block of the content list: a text block, or a block of another type
\* (tool use, search result), which has no `text`.
Blocks == {[type |-> "tool_use", text |-> <<>>]}
              \cup {[type |-> "text", text |-> t] : t \in Texts(Alphabet.block, MaxBlockText)}

RECURSIVE textContent(_)
\* parsed.content.filter(block => block.type === 'text')
\*               .map(block => block.text).join('\n')
textContent(content) ==
    IF content = <<>> THEN <<>>
    ELSE IF Head(content).type # "text" THEN textContent(Tail(content))
    ELSE IF \A i \in 2..Len(content) : content[i].type # "text" THEN Head(content).text
    ELSE Head(content).text \o <<Tok.newline>> \o textContent(Tail(content))

\* JSON.parse(m) returns: the braces of m pair up, the first one is closed by
\* the last one, and no prose stands in m.  Line breaks between the tokens
\* do not matter to JSON.parse.
Parses(m) ==
    LET RECURSIVE Nested(_, _)
        Nested(s, depth) ==
            IF s = <<>> THEN depth = 0
            ELSE IF Head(s) = Tok.open THEN Nested(Tail(s), depth + 1)
            ELSE IF Head(s) = Tok.close
            THEN depth > 0 /\ (depth = 1 => Len(s) = 1) /\ Nested(Tail(s), depth - 1)
            ELSE depth > 0 /\ Nested(Tail(s), depth)
    IN /\ Nested(SelectSeq(m, LAMBDA t : t # Tok.newline), 0)
       /\ Positions(m, Tok.word) = {}

\* textContent.match(/\{[\s\S]*"boundaries"[\s\S]*\}/): from the first
\* opening brace that has the marker key and then a closing brace behind it
\* to the last closing brace.
JsonMatch(text) ==
    LET B == Positions(text, Tok.close)
        O == {o \in Positions(text, Tok.open) :
                 \E m \in Positions(text, Tok.key), b \in B : o < m /\ m < b} IN
    IF O = {} THEN [found |-> FALSE, group |-> <<>>]
    ELSE [found |-> TRUE, group |-> SubSeq(text, MinOf(O), MaxOf(B))]

\* What a search client resolves with; <<Absent>> is a result without
\* rawResponse.
SearchResult(kind, err, raw) == [kind |-> kind, error |-> err, rawResponse |-> raw]

searchClientRejectsUnparsed(k, content) ==
    LET jsonMatch == JsonMatch(textContent(content)) IN
    IF jsonMatch.found /\ Parses(jsonMatch.group)
    THEN [rejects |-> FALSE, result |-> SearchResult("structured", Absent, <<Absent>>)]
    ELSE [rejects |-> TRUE, result |-> SearchResult("raw", Absent, textContent(content))]

\* searchWithClaude and searchGradeBoundaries on a response with status 200:
\* the object found in the text when it parses, otherwise a result with the
\* text as rawResponse (and, from the grade search, an error message).  The
\* promise is resolved in every branch.
searchClient(k, content) ==
    LET jsonMatch == JsonMatch(textContent(content)) IN
    IF jsonMatch.found /\ Parses(jsonMatch.group)
    THEN [rejects |-> FALSE, result |-> SearchResult("structured", Absent, <<Absent>>)]
    ELSE IF k = "search"
    THEN [rejects |-> FALSE, result |-> SearchResult("raw", Absent, textContent(content))]
    ELSE IF jsonMatch.found
    THEN [rejects |-> FALSE,
          result |-> SearchResult("raw", "Could not parse grade boundaries", textContent(content))]
    ELSE [rejects |-> FALSE,
          result |-> SearchResult("raw", "No grade boundaries found", textContent(content))]

\* The record a worker is about to write after a response with status 200,
\* and the text it took from the response.  The essay worker reads
\* claudeData.content[0].text (a TypeError on an empty list; undefined on a
\* block without `text`, and extractJavaScript then throws on text.match) and
\* records the config extracted from it; the search workers record the
\* result of their client; the catch block records { status: 'error',
\* error: error.message } when the code before the write has thrown.  (The
\* grade worker adds the scaled table to a structured result, see Scale.)
Outcome(k, content) ==
    LET r == searchClient(k, content) IN
    IF k = "essay"
    THEN IF content = <<>> \/ content[1].type # "text"
         THEN [status |-> "error", text |-> <<>>, config |-> <<>>,
               result |-> SearchResult(Absent, ExceptionMsg, <<Absent>>)]
         ELSE [status |-> "completed", text |-> content[1].text,
               config |-> extractJavaScript(content[1].text),
               result |-> SearchResult(Absent, Absent, <<Absent>>)]
    ELSE IF r.rejects
         THEN [status |-> "error", text |-> textContent(content), config |-> <<>>,
               result |-> SearchResult(Absent, ExceptionMsg, <<Absent>>)]
         ELSE [status |-> "completed", text |-> textContent(content), config |-> <<>>,
               result |-> r.result]

\* A worker of kind k receives a response with status 200 and this content.
Answer ==
    /\ calc.fn = "answer" /\ ~calc.done
    /\ calc' = [fn |-> calc.fn, done |-> TRUE, kind |-> calc.kind, content |-> calc.content,
                out |-> Outcome(calc.kind, calc.content)]
    /\ UNCHANGED <<jobVars, results, reply>>

\* ---------------------------------------------------------------------
\* injectSourceContent
\* ---------------------------------------------------------------------
\* Generated configs: up to MaxConfig pieces, each other code, the source
\* material placeholder or the placeholder of the source images.
Configs ==
    LET RECURSIVE Flatten(_)
        Flatten(ss) == IF ss = <<>> THEN <<>> ELSE Head(ss) \o Flatten(Tail(ss))
    IN {Flatten(ss) : ss \in Texts({<<Tok.word>>, Tok.placeholder, <<Tok.imagesPlaceholder>>},
                                   MaxConfig)}

\* escapeForTemplateLiteral(str): str.replace(/\\/g, '\\\\'), then
\* .replace(/`/g, '\\`'), then .replace(/\$\{/g, '\\${').
escapeForTemplateLiteral(str) ==
    LET RECURSIVE EscapeEach(_, _)
        EscapeEach(s, c) ==
            IF s = <<>> THEN s
            ELSE IF Head(s) = c THEN <<Tok.backslash, c>> \o EscapeEach(Tail(s), c)
            ELSE <<Head(s)>> \o EscapeEach(Tail(s), c)
        RECURSIVE EscapeInterpolation(_)
        EscapeInterpolation(s) ==
            IF Len(s) < 2 THEN s
            ELSE IF s[1] = Tok.dollar /\ s[2] = Tok.open
            THEN <<Tok.backslash, Tok.dollar, Tok.open>>
                     \o EscapeInterpolation(SubSeq(s, 3, Len(s)))
            ELSE <<Head(s)>> \o EscapeInterpolation(Tail(s))
    IN EscapeInterpolation(EscapeEach(EscapeEach(str, Tok.backslash), Tok.backtick))

\* s.replace(pattern, replacement) with a pattern that is not global and a
\* replacement given as a string: the first match is replaced, and in the
\* replacement $$ stands for a dollar sign, $& for the matched text, $` for
\* the text before the match, $' for the text behind it; every other
\* character stands for itself (the pattern has no groups, so $1 is not
\* special).
Replace(s, pattern, replacement) ==
    LET I == {i \in 1..(Len(s) - Len(pattern) + 1) :
                 SubSeq(s, i, i + Len(pattern) - 1) = pattern}
        before == SubSeq(s, 1, MinOf(I) - 1)
        after == SubSeq(s, MinOf(I) + Len(pattern), Len(s))
        RECURSIVE GetSubstitution(_)
        GetSubstitution(r) ==
            IF r = <<>> THEN <<>>
            ELSE IF Len(r) >= 2 /\ r[1] = Tok.dollar
                    /\ r[2] \in {Tok.dollar, Tok.ampersand, Tok.backtick, Tok.quote}
            THEN LET rest == GetSubstitution(SubSeq(r, 3, Len(r))) IN
                 CASE r[2] = Tok.dollar -> <<Tok.dollar>> \o rest
                   [] r[2] = Tok.ampersand -> pattern \o rest
                   [] r[2] = Tok.backtick -> before \o rest
                   [] r[2] = Tok.quote -> after \o rest
            ELSE <<Head(r)>> \o GetSubstitution(Tail(r))
    IN IF I = {} THEN s ELSE before \o GetSubstitution(replacement) \o after

\* injectSourceContent(config, body), for a body whose sourceMaterial is
\* missing (kind "absent") or a text, with or without image files in
\* sourceFiles.
injectSourceContent(config, sourceMaterial, images) ==
    LET trimmed == Trim(sourceMaterial.text)
        literal == IF sourceMaterial.kind = "text" /\ trimmed # <<>>
                   THEN <<Tok.sourceKey, Tok.backtick>> \o escapeForTemplateLiteral(trimmed)
                            \o <<Tok.backtick>>
                   ELSE <<Tok.sourceKey, Tok.backtick, Tok.backtick>>
        injected == Replace(config, Tok.placeholder, literal) IN
    IF images THEN Replace(injected, <<Tok.imagesPlaceholder>>, <<Tok.imagesArray>>)
    ELSE injected

\* A call of injectSourceContent(config, body).
Inject ==
    /\ calc.fn = "injectSourceContent" /\ ~calc.done
    /\ calc' = [fn |-> calc.fn, done |-> TRUE, config |-> calc.config,
                sourceMaterial |-> calc.sourceMaterial, images |-> calc.images,
                out |-> injectSourceContent(calc.config, calc.sourceMaterial, calc.images)]
    /\ UNCHANGED <<jobVars, results, reply>>

\* ---------------------------------------------------------------------
\* The text functions applied to their inputs
\* ---------------------------------------------------------------------
TextInit ==
    /\ store = [k \in Keys |-> NoRecord]
    /\ nextId = 1
    /\ wk = [w \in Workers |-> IdleWorker]
    /\ resp = NoResp
    /\ apiKey = TRUE
    /\ results = NoResults(TRUE)
    /\ reply = NoReply
    /\ \/ \E text \in Texts(Alphabet.text, MaxText) :
             calc = [fn |-> "extractJavaScript", done |-> FALSE, text |-> text]
       \/ \E k \in WorkerKinds, content \in Texts(Blocks, MaxBlocks) :
             calc = [fn |-> "answer", done |-> FALSE, kind |-> k, content |-> content]
       \/ \E config \in Configs, images \in BOOLEAN :
             \E sourceMaterial \in {[kind |-> "absent", text |-> <<>>]}
                    \cup {[kind |-> "text", text |-> t] : t \in Texts(Alphabet.source, MaxSource)} :
                calc = [fn |-> "injectSourceContent", done |-> FALSE, config |-> config,
                        sourceMaterial |-> sourceMaterial, images |-> images]

TextNext == Extract \/ Answer \/ Inject

TextSpec == TextInit /\ [][TextNext]_vars

\* ---------------------------------------------------------------------
\* Properties of the text functions
\* ---------------------------------------------------------------------

\* C33: when the response text of a successful answer holds no structured
\* object that parses (no object with the marker key, or one that does not
\* parse), the search client resolves with a result that carries the raw
\* response text and the search worker records the job as completed.
C33_UnparsedAnswerCompletesWithRawText ==
    calc.fn = "answer" /\ calc.done /\ calc.kind \in {"search", "grade"} =>
        LET text == textContent(calc.content)
            jsonMatch == JsonMatch(text) IN
        ~(jsonMatch.found /\ Parses(jsonMatch.group)) =>
            /\ calc.out.status = "completed"
            /\ calc.out.result.kind = "raw"
            /\ calc.out.result.rawResponse = text

C33_Witness ==
    /\ calc.fn = "answer" /\ calc.done /\ calc.kind = "grade"
    /\ JsonMatch(textContent(calc.content)).found
    /\ ~Parses(JsonMatch(textContent(calc.content)).group)
    /\ calc.out.status = "completed"
    /\ calc.out.result.rawResponse = textContent(calc.content)

\* C34: for a text with a fenced block extractJavaScript returns the
\* contents of the first block (the tokens between the first two fences,
\* without a language tag that stands right behind the opening fence),
\* trimmed; a text without a fence and without the config marker is returned
\* trimmed as a whole.
C34_FirstFencedBlockTrimmed ==
    calc.fn = "extractJavaScript" /\ calc.done =>
        LET F == Positions(calc.text, Tok.fence)
            inner == SubSeq(calc.text, MinOf(F) + 1, MinOf(F \ {MinOf(F)}) - 1)
            block == IF inner # <<>> /\ Head(inner) \in {"javascript", "js", "json"}
                     THEN Tail(inner) ELSE inner IN
        /\ Cardinality(F) >= 2 => calc.out = Trim(block)
        /\ F = {} /\ Positions(calc.text, Tok.marker) = {} => calc.out = Trim(calc.text)

\* C35: the text a worker extracts its result from is the texts of all text
\* blocks of the content list one after the other (line breaks between them
\* aside), for the essay worker as for the search workers.
C35_AllTextBlocksInOrder ==
    calc.fn = "answer" /\ calc.done =>
        SelectSeq(calc.out.text, LAMBDA t : t # Tok.newline)
            = SelectSeq(textContent(calc.content), LAMBDA t : t # Tok.newline)

\* C36: injectSourceContent puts a template literal in the place of the
\* source material placeholder that evaluates to the caller's trimmed source
\* text, whatever the text holds; a config without the placeholder is
\* returned as it is.  (The value of a template literal: an escaped
\* character stands for itself, an unescaped backtick ends the literal; the
\* literal is no plain text when it holds an interpolation or does not end.)
C36_InjectedLiteralIsSourceText ==
    calc.fn = "injectSourceContent" /\ calc.done =>
        LET RECURSIVE Cook(_)
            Cook(s) ==
                IF s = <<>> THEN [plain |-> FALSE, value |-> <<>>]
                ELSE IF Head(s) = Tok.backtick THEN [plain |-> TRUE, value |-> <<>>]
                ELSE IF Head(s) = Tok.backslash
                THEN IF Len(s) < 2 THEN [plain |-> FALSE, value |-> <<>>]
                     ELSE LET r == Cook(SubSeq(s, 3, Len(s))) IN
                          [plain |-> r.plain, value |-> <<s[2]>> \o r.value]
                ELSE IF Head(s) = Tok.dollar /\ Len(s) >= 2 /\ s[2] = Tok.open
                THEN [plain |-> FALSE, value |-> <<>>]
                ELSE LET r == Cook(Tail(s)) IN
                     [plain |-> r.plain, value |-> <<Head(s)>> \o r.value]
            I == {j \in 1..(Len(calc.config) - 3) :
                     SubSeq(calc.config, j, j + 3) = Tok.placeholder}
            i == IF I = {} THEN 0 ELSE MinOf(I)
            literal == Cook(SubSeq(calc.out, i + 2, Len(calc.out))) IN
        /\ i # 0 =>
              /\ SubSeq(calc.out, i, i + 1) = <<Tok.sourceKey, Tok.backtick>>
              /\ literal.plain
              /\ literal.value = Trim(calc.sourceMaterial.text)
        /\ i = 0 /\ ~calc.images => calc.out = calc.config

====
